---- MODULE Spec2Model ----
(***************************************************************************)
(* A model of the markdown parser of AsukaCHikaru/markdown-parser          *)
(* (src/lib/parser.ts): the inline tokenizer parseTextBodyStyle, the link  *)
(* extractor parseLinkInText and the block matcher parseBlocks, and of    *)
(* the standalone tokenizer of src/lib/parseTextBody.ts.                   *)
(*                                                                         *)
(* A JavaScript string is a sequence of one-character strings.  The value  *)
(* undefined is the one-element sequence Undefined, whose element is no    *)
(* character of any alphabet used here; string concatenation turns it into *)
(* the nine characters of "undefined", as the + operator does.             *)
(***************************************************************************)
EXTENDS Integers, Sequences, FiniteSets, TLC

VARIABLES
  text0,     \* tokenizer: the text parseTextBodyStyle was first called with
  text,      \* tokenizer: the remaining text of the current call
  progress,  \* tokenizer: the current run, or NoProgress (null)
  result,    \* tokenizer: the finished runs
  tstat,     \* tokenizer: "run", "done" (returned) or "TypeError" (raised)
  opened,    \* history: the marker characters that opened the current run
  input0,    \* parseBlocks: the text of the outermost call
  input,     \* parseBlocks: the text of the current (innermost) call
  blocks,    \* parseBlocks: the blocks built so far, in order
  bstat,     \* parseBlocks: "run", "done" or the error raised
  matched,   \* history: per block built, the rule and the text its builder got
  calls,     \* history: the number of nested calls of parseBlocks made so far
  ltext0,    \* parseLinkInText: the text of the outermost call
  ltext,     \* parseLinkInText: the text of the current call
  parts,     \* parseLinkInText: the strings and links found so far
  lstat      \* parseLinkInText: "run", "done" or "TypeError"

vars == <<text0, text, progress, result, tstat, opened,
          input0, input, blocks, bstat, matched, calls, ltext0, ltext, parts, lstat>>
tokVars == <<text0, text, progress, result, tstat, opened>>
blockVars == <<input0, input, blocks, bstat, matched, calls>>
linkVars == <<ltext0, ltext, parts, lstat>>

----------------------------------------------------------------------------
(* Bounds of the model. *)
MaxTokLen == 6
MaxBlockLen == 4
MaxLines == 3
MaxSep == 3
MaxLinkLen == 7

----------------------------------------------------------------------------
(* Strings. *)

Undefined == <<"undefined">>

\* The backquote character (a backquote cannot be written in a string here).
BackTick == "bq"

ToStr(v) == IF v = Undefined THEN <<"u", "n", "d", "e", "f", "i", "n", "e", "d">> ELSE v

Concat(a, b) == ToStr(a) \o ToStr(b)

Slice(s, n) == IF n >= Len(s) THEN <<>> ELSE SubSeq(s, n + 1, Len(s))

CharAt0(s) == IF Len(s) = 0 THEN Undefined ELSE <<s[1]>>

Strings(alphabet, n) == UNION {[1..k -> alphabet] : k \in 0..n}

----------------------------------------------------------------------------
(* The inline tokenizer: parseTextBodyStyle and checkHeadStyle. *)

NoProgress == [style |-> "null", text |-> <<>>]

TextBody(style, value) == [type |-> "textBody", style |-> style, value |-> value]

checkHeadStyle(t) ==
  IF Len(t) >= 2 /\ t[1] = "*" /\ t[2] = "*" THEN [style |-> "strong", text |-> Slice(t, 2)]
  ELSE IF Len(t) >= 1 /\ t[1] = "*" THEN [style |-> "italic", text |-> Slice(t, 1)]
  ELSE IF Len(t) >= 1 /\ t[1] = "_" THEN [style |-> "italic", text |-> Slice(t, 1)]
  ELSE IF Len(t) >= 1 /\ t[1] = BackTick THEN [style |-> "code", text |-> Slice(t, 1)]
  ELSE [style |-> "plain", text |-> t]

Mark(style) ==
  IF style = "code" THEN <<BackTick>>
  ELSE IF style = "strong" THEN <<"*", "*">>
  ELSE <<"_">>

\* progress?.text ?? ''
TextOrEmpty(p) == IF p = NoProgress \/ p.text = Undefined THEN <<>> ELSE p.text

\* The unterminated-run merge: the last finished run, a plain one, takes the
\* mark of the open run's style and the open run's text.
MergeCase(st) ==
  [text |-> st.text,
   result |-> Append(SubSeq(st.result, 1, Len(st.result) - 1),
                     TextBody("plain",
                              Concat(Concat(st.result[Len(st.result)].value,
                                            Mark(st.progress.style)),
                                     st.progress.text))),
   progress |-> NoProgress,
   stat |-> "done"]

\* The plain return: the open run, if any, becomes the last finished run.
FlushCase(st) ==
  [text |-> st.text,
   result |-> IF st.progress # NoProgress
              THEN Append(st.result, TextBody(st.progress.style, st.progress.text))
              ELSE st.result,
   progress |-> NoProgress,
   stat |-> "done"]

\* The branch text.length === 0: the call returns, or raises a TypeError when
\* it reads .style of result[result.length - 1] on an empty result.
TokEnd(st) ==
  IF st.progress # NoProgress /\ st.progress.style # "plain"
  THEN IF Len(st.result) = 0
       THEN [st EXCEPT !.stat = "TypeError"]
       ELSE IF st.result[Len(st.result)].style = "plain"
            THEN MergeCase(st)
            ELSE FlushCase(st)
  ELSE FlushCase(st)

\* case undefined: no current run.
NoRunCase(st, headStyle, first, rest) ==
  [text |-> rest,
   progress |-> [style |-> headStyle, text |-> first],
   result |-> st.result,
   stat |-> "run"]

\* A mutant of PlainPlainCase: the plain run is flushed at every character.
PlainPlainCase_Flush(st, first, rest) ==
  [text |-> rest,
   progress |-> [style |-> "plain", text |-> first],
   result |-> Append(st.result, TextBody("plain", st.progress.text)),
   stat |-> "run"]

\* case 'plain', head plain: the current run takes the character.
PlainPlainCase(st, first, rest) ==
  [text |-> rest,
   progress |-> [style |-> "plain", text |-> Concat(TextOrEmpty(st.progress), first)],
   result |-> st.result,
   stat |-> "run"]

\* case 'plain', head code, italic or strong: the plain run is finished and
\* a run of the head's style starts.
PlainStyledCase(st, headStyle, first, rest) ==
  [text |-> rest,
   progress |-> [style |-> headStyle, text |-> first],
   result |-> IF st.progress # NoProgress
              THEN Append(st.result, TextBody(st.progress.style, st.progress.text))
              ELSE st.result,
   stat |-> "run"]

\* case code, italic, strong with headStyle === progressStyle: the run closes;
\* the marker is consumed and the character after it is not.
CloseCase(st, headText) ==
  [text |-> headText,
   progress |-> NoProgress,
   result |-> Append(st.result, TextBody(st.progress.style, TextOrEmpty(st.progress))),
   stat |-> "run"]

\* case code, italic, strong with another head style: the character after the
\* head's marker (the head character itself for a plain head) joins the run.
LiteralCase(st, first, rest) ==
  [text |-> rest,
   progress |-> [style |-> st.progress.style,
                 text |-> Concat(TextOrEmpty(st.progress), first)],
   result |-> st.result,
   stat |-> "run"]

\* The switch on progress?.style: the arguments of the recursive call.  The
\* two default branches throw; no style reaches them.
TokSwitch(st) ==
  LET head == checkHeadStyle(st.text)
      headStyle == head.style
      headText == head.text
      progressStyle == st.progress.style
      first == CharAt0(headText)
      rest == Slice(headText, 1)
  IN  CASE progressStyle = "null" -> NoRunCase(st, headStyle, first, rest)
        [] progressStyle = "plain" /\ headStyle = "plain" -> PlainPlainCase(st, first, rest)
        [] progressStyle = "plain" /\ headStyle \in {"code", "italic", "strong"} ->
             PlainStyledCase(st, headStyle, first, rest)
        [] progressStyle \in {"code", "italic", "strong"} /\ headStyle = progressStyle ->
             CloseCase(st, headText)
        [] progressStyle \in {"code", "italic", "strong"} /\ headStyle # progressStyle ->
             LiteralCase(st, first, rest)
        [] OTHER -> [st EXCEPT !.stat = "UnexpectedStyle"]

\* One call of parseTextBodyStyle, up to its return or its recursive call.
TokStep(st) == IF Len(st.text) = 0 THEN TokEnd(st) ELSE TokSwitch(st)

RECURSIVE TokRun(_)
TokRun(st) == IF st.stat # "run" THEN st ELSE TokRun(TokStep(st))

\* parseTextBodyStyle({ text, progress: null, result: [] })
parseTextBodyStyle(t) ==
  TokRun([text |-> t, progress |-> NoProgress, result |-> <<>>, stat |-> "run"])

----------------------------------------------------------------------------
(* The standalone tokenizer of src/lib/parseTextBody.ts: its own           *)
(* parseTextBodyStyle, checkHeadStyle and parseTextBody.  Its finished     *)
(* runs are records of a style and a text; parseTextBody makes them        *)
(* TextBody records.                                                        *)

StandaloneRunOf(style, t) == [style |-> style, text |-> t]

StandaloneCheckHeadStyle(t) ==
  IF Len(t) >= 2 /\ t[1] = "*" /\ t[2] = "*" THEN [style |-> "strong", text |-> Slice(t, 2)]
  ELSE IF Len(t) >= 1 /\ t[1] = "*" THEN [style |-> "italic", text |-> Slice(t, 1)]
  ELSE IF Len(t) >= 1 /\ t[1] = "_" THEN [style |-> "italic", text |-> Slice(t, 1)]
  ELSE IF Len(t) >= 1 /\ t[1] = BackTick THEN [style |-> "code", text |-> Slice(t, 1)]
  ELSE [style |-> "plain", text |-> t]

\* The branch text.length === 0: the open run, if any, is the last run
\* returned, whatever its style and whatever the runs before it.
StandaloneEnd(st) ==
  [text |-> st.text,
   result |-> IF st.progress # NoProgress THEN Append(st.result, st.progress) ELSE st.result,
   progress |-> NoProgress,
   stat |-> "done"]

\* The switch on progress?.style: the arguments of the recursive call.
StandaloneSwitch(st) ==
  LET head == StandaloneCheckHeadStyle(st.text)
      headStyle == head.style
      headText == head.text
      progressStyle == st.progress.style
      first == CharAt0(headText)
      rest == Slice(headText, 1)
  IN  CASE progressStyle = "null" ->
             [text |-> rest, progress |-> StandaloneRunOf(headStyle, first),
              result |-> st.result, stat |-> "run"]
        [] progressStyle = "plain" /\ headStyle = "plain" ->
             [text |-> rest,
              progress |-> StandaloneRunOf("plain", Concat(TextOrEmpty(st.progress), first)),
              result |-> st.result, stat |-> "run"]
        [] progressStyle = "plain" /\ headStyle \in {"code", "italic", "strong"} ->
             [text |-> rest, progress |-> StandaloneRunOf(headStyle, first),
              result |-> IF st.progress # NoProgress THEN Append(st.result, st.progress)
                         ELSE st.result,
              stat |-> "run"]
        [] progressStyle \in {"code", "italic", "strong"} /\ headStyle = progressStyle ->
             [text |-> headText, progress |-> NoProgress,
              result |-> Append(st.result,
                                StandaloneRunOf(progressStyle, TextOrEmpty(st.progress))),
              stat |-> "run"]
        [] progressStyle \in {"code", "italic", "strong"} /\ headStyle # progressStyle ->
             [text |-> rest,
              progress |-> StandaloneRunOf(progressStyle,
                                           Concat(TextOrEmpty(st.progress), first)),
              result |-> st.result, stat |-> "run"]
        [] OTHER -> [st EXCEPT !.stat = "UnexpectedStyle"]

\* One call of the standalone parseTextBodyStyle, up to its return or its
\* recursive call.
StandaloneStep(st) == IF Len(st.text) = 0 THEN StandaloneEnd(st) ELSE StandaloneSwitch(st)

RECURSIVE StandaloneRun(_)
StandaloneRun(st) == IF st.stat # "run" THEN st ELSE StandaloneRun(StandaloneStep(st))

\* parseTextBodyStyle({ text: input, progress: null, result: [] })
StandaloneParseTextBodyStyle(t) ==
  StandaloneRun([text |-> t, progress |-> NoProgress, result |-> <<>>, stat |-> "run"])

\* result.map(({ style, text }) => ({ type: 'textBody', style, value: text }))
StandaloneTextBodies(runs) == [i \in 1..Len(runs) |-> TextBody(runs[i].style, runs[i].text)]

\* parseTextBody(input) of parseTextBody.ts: [stat, body].
StandaloneParseTextBody(t) ==
  [stat |-> StandaloneParseTextBodyStyle(t).stat,
   body |-> StandaloneTextBodies(StandaloneParseTextBodyStyle(t).result)]

----------------------------------------------------------------------------
(* The link extractor: linkRegexp, parseLinkInText and parseTextBody. *)

\* The character class . of a regular expression: any character but a line
\* terminator.
IsDot(c) == c # "\n"

AllDot(s, i, j) == \A k \in i..j : IsDot(s[k])

SetMin(S) == CHOOSE x \in S : \A y \in S : x <= y
SetMax(S) == CHOOSE x \in S : \A y \in S : x >= y

\* \(.+?\) tried at position p of s, where s[p] is the "(": the position of
\* the closing ")", the nearest one with at least one character before it,
\* or 0.
LazyUrlEnd(s, p) ==
  LET js == {j \in (p + 2)..Len(s) : s[j] = ")" /\ AllDot(s, p + 1, j - 1)}
  IN  IF js = {} THEN 0 ELSE SetMin(js)

\* linkRegexp tried at position i of s: the lengths of the label for which
\* the rest of the pattern matches.
LinkLabelLens(s, i) ==
  {k \in 1..(Len(s) - i) :
     /\ i + k + 2 <= Len(s)
     /\ AllDot(s, i + 1, i + k)
     /\ s[i + k + 1] = "]"
     /\ s[i + k + 2] = "("
     /\ LazyUrlEnd(s, i + k + 2) # 0}

\* input.match(linkRegexp): the leftmost match, with the shortest label and
\* then the shortest url, as [found, start, label, end]; the label ends at
\* start + label and the match at end.
linkRegexp(s) ==
  LET starts == {i \in 1..Len(s) : s[i] = "[" /\ LinkLabelLens(s, i) # {}}
  IN  IF starts = {}
      THEN [found |-> FALSE, start |-> 0, label |-> 0, end |-> 0]
      ELSE LET i == SetMin(starts)
               k == SetMin(LinkLabelLens(s, i))
           IN  [found |-> TRUE, start |-> i, label |-> k,
                end |-> LazyUrlEnd(s, i + k + 2)]

\* link.match(/<open>(.+)<close>/)?.[1] ?? '' for a link without line
\* terminators: from the first <open> that has a <close> two or more
\* characters later, to the last <close>.
GreedyBetween(link, open, close) ==
  LET is == {i \in 1..Len(link) :
               link[i] = open /\ \E j \in (i + 2)..Len(link) : link[j] = close}
  IN  IF is = {} THEN <<>>
      ELSE LET i == SetMin(is)
               j == SetMax({j \in (i + 2)..Len(link) : link[j] = close})
           IN  SubSeq(link, i + 1, j - 1)

LinkOf(body, url) == [type |-> "link", body |-> body, url |-> url]

Str(value) == [type |-> "string", value |-> value]

\* [before, linkBlock].filter(Boolean): the empty string is dropped.
FilterBoolean(before) == IF before = <<>> THEN <<>> ELSE <<Str(before)>>

\* One call of parseLinkInText on s, with the items found by the calls
\* around it in sofar: the call returns (stat "done"), raises, or calls itself
\* on the text after the link (stat "run").  The outermost call returns
\* [input] unfiltered; the callers filter what an inner call returns.
LinkStep(s, sofar, outermost) ==
  LET m == linkRegexp(s)
  IN  IF ~m.found
      THEN [stat |-> "done", text |-> <<>>,
            parts |-> IF outermost THEN <<Str(s)>> ELSE sofar \o FilterBoolean(s)]
      ELSE LET link == SubSeq(s, m.start, m.end)
               tok == parseTextBodyStyle(GreedyBetween(link, "[", "]"))
               url == GreedyBetween(link, "(", ")")
               before == SubSeq(s, 1, m.start - 1)
               after == Slice(s, m.end)
           IN  IF tok.stat # "done"
               THEN [stat |-> tok.stat, text |-> s, parts |-> sofar]
               ELSE [stat |-> "run", text |-> after,
                     parts |-> sofar \o FilterBoolean(before) \o <<LinkOf(tok.result, url)>>]

\* The return of a call: what it returns or raises itself, or what its
\* recursive call on the text after the link returns.
RECURSIVE LinkRun(_, _, _)
LinkReturn(n) == IF n.stat # "run" THEN n ELSE LinkRun(n.text, n.parts, FALSE)

LinkRun(s, sofar, outermost) == LinkReturn(LinkStep(s, sofar, outermost))

parseLinkInText(s) == LinkRun(s, <<>>, TRUE)

\* typeof item === 'string' ? parseTextBodyStyle({ text: item, ... }) : item
MapItem(item) ==
  IF item.type = "string" THEN parseTextBodyStyle(item.value)
  ELSE [stat |-> "done", result |-> <<item>>]

\* The first item's runs before the runs of the other items; the first
\* error raised ends the map.
FlatCons(head, restOf) ==
  IF head.stat # "done" THEN [stat |-> head.stat, body |-> <<>>]
  ELSE IF restOf.stat # "done" THEN restOf
  ELSE [stat |-> "done", body |-> head.result \o restOf.body]

\* The map and flat of parseTextBody over the items of parseLinkInText.
RECURSIVE MapFlat(_)
MapFlat(items) ==
  IF Len(items) = 0 THEN [stat |-> "done", body |-> <<>>]
  ELSE FlatCons(MapItem(items[1]), MapFlat(Tail(items)))

TextBodyOf(l) == IF l.stat # "done" THEN [stat |-> l.stat, body |-> <<>>] ELSE MapFlat(l.parts)

parseTextBody(s) == TextBodyOf(parseLinkInText(s))

----------------------------------------------------------------------------
(* The block patterns.  Each gives, for a text s, whether it matches at the *)
(* start of s, the length of the match (match[0]) and its captures.        *)

\* The character class \s, over the characters used here.
IsWs(c) == c \in {" ", "\n", "\t"}

Digits == {"0", "1", "2", "3", "4", "5", "6", "7", "8", "9"}

Letters == {"a", "b", "c"}

\* The character class \w.
WordChars == Letters \cup Digits \cup {"_"}

\* String.prototype.trim
RECURSIVE TrimStart(_)
TrimStart(s) == IF Len(s) > 0 /\ IsWs(s[1]) THEN TrimStart(Tail(s)) ELSE s

RECURSIVE TrimEnd(_)
TrimEnd(s) ==
  IF Len(s) > 0 /\ IsWs(s[Len(s)]) THEN TrimEnd(SubSeq(s, 1, Len(s) - 1)) ELSE s

Trim(s) == TrimEnd(TrimStart(s))

\* The position of the first line terminator of s at or after i, or
\* Len(s) + 1: where a greedy .* or .+ started at i stops.
LineEnd(s, i) ==
  LET js == {j \in i..Len(s) : s[j] = "\n"}
  IN  IF js = {} THEN Len(s) + 1 ELSE SetMin(js)

\* The number of consecutive characters of s from position i on that are in C.
RECURSIVE CountFrom(_, _, _)
CountFrom(s, i, C) == IF i <= Len(s) /\ s[i] \in C THEN 1 + CountFrom(s, i + 1, C) ELSE 0

NoMatch == [found |-> FALSE, len |-> 0]

HeadingMaxLevel == 6

\* /^(#{1,6})\s(.+)/
headingRegexp(s) ==
  LET n == CountFrom(s, 1, {"#"})
  IN  IF /\ n >= 1 /\ n <= HeadingMaxLevel
         /\ Len(s) >= n + 2 /\ IsWs(s[n + 1]) /\ IsDot(s[n + 2])
      THEN [found |-> TRUE, len |-> LineEnd(s, n + 2) - 1, level |-> n,
            text |-> SubSeq(s, n + 2, LineEnd(s, n + 2) - 1)]
      ELSE NoMatch

\* After a line matched up to the line terminator at e (or the end of s),
\* \n? takes the terminator: the position where the next repetition starts.
AfterLine(s, e) == IF e <= Len(s) THEN e + 1 ELSE e

\* One repetition of >\s.*\n? at position p: the position after it, or 0.
QuoteIter(s, p) ==
  IF p + 1 <= Len(s) /\ s[p] = ">" /\ IsWs(s[p + 1])
  THEN AfterLine(s, LineEnd(s, p + 2))
  ELSE 0

RECURSIVE QuoteLoop(_, _)
QuoteLoop(s, p) == IF QuoteIter(s, p) = 0 THEN p ELSE QuoteLoop(s, QuoteIter(s, p))

\* /^(?:>\s.*\n?)+/
quoteRegexp(s) ==
  IF QuoteIter(s, 1) = 0 THEN NoMatch
  ELSE [found |-> TRUE, len |-> QuoteLoop(s, 1) - 1]

\* (?:-|\d+\.) at position p: the position after the marker, or 0.
ListMarkerEnd(s, p) ==
  IF p <= Len(s) /\ s[p] = "-" THEN p + 1
  ELSE LET d == CountFrom(s, p, Digits)
       IN  IF d >= 1 /\ p + d <= Len(s) /\ s[p + d] = "." THEN p + d + 1 ELSE 0

\* One repetition of (?:-|\d+\.)\s(.+)\n? at position p: the position after
\* it (0 when it fails) and the capture (.+).
ListIter(s, p) ==
  LET q == ListMarkerEnd(s, p)
  IN  IF q # 0 /\ q + 1 <= Len(s) /\ IsWs(s[q]) /\ IsDot(s[q + 1])
      THEN [next |-> AfterLine(s, LineEnd(s, q + 1)),
            content |-> SubSeq(s, q + 1, LineEnd(s, q + 1) - 1)]
      ELSE [next |-> 0, content |-> <<>>]

\* The repetitions from p on: the position after the last one and its capture.
RECURSIVE ListLoop(_, _, _)
ListLoop(s, p, content) ==
  LET it == ListIter(s, p)
  IN  IF it.next = 0 THEN [next |-> p, content |-> content]
      ELSE ListLoop(s, it.next, it.content)

\* /^(?:(?:-|\d+\.)\s(.+)\n?)+/
listRegexp(s) ==
  IF ListIter(s, 1).next = 0 THEN NoMatch
  ELSE LET l == ListLoop(s, 1, <<>>)
       IN  [found |-> TRUE, len |-> l.next - 1, content |-> l.content]

\* /^!\[(.*)\]\((.+?)\)(.*)/ : the alt text is the longest for which the rest
\* matches, the url then the shortest, the caption the rest of the line.
imageRegexp(s) ==
  LET L == LineEnd(s, 1) - 1
      ks == {k \in 3..(L - 1) :
               s[k] = "]" /\ s[k + 1] = "(" /\ \E j \in (k + 3)..L : s[j] = ")"}
  IN  IF Len(s) >= 2 /\ s[1] = "!" /\ s[2] = "[" /\ ks # {}
      THEN LET k == SetMax(ks)
               j == SetMin({j \in (k + 3)..L : s[j] = ")"})
           IN  [found |-> TRUE, len |-> L,
                altText |-> SubSeq(s, 3, k - 1),
                url |-> SubSeq(s, k + 2, j - 1),
                caption |-> SubSeq(s, j + 1, L)]
      ELSE NoMatch

IsFence(s, i) ==
  i + 2 <= Len(s) /\ s[i] = BackTick /\ s[i + 1] = BackTick /\ s[i + 2] = BackTick

\* /^```(\w+)?\n([\s\S]*?)\n```/ : the body ends at the first line terminator
\* that a fence follows.
codeRegexp(s) ==
  LET w == CountFrom(s, 4, WordChars)
      ms == {m \in (5 + w)..Len(s) : s[m] = "\n" /\ IsFence(s, m + 1)}
  IN  IF IsFence(s, 1) /\ 4 + w <= Len(s) /\ s[4 + w] = "\n" /\ ms # {}
      THEN [found |-> TRUE, len |-> SetMin(ms) + 3,
            lang |-> IF w = 0 THEN Undefined ELSE SubSeq(s, 4, 3 + w),
            body |-> SubSeq(s, 5 + w, SetMin(ms) - 1)]
      ELSE NoMatch

ThematicBreakMin == 3

\* /^-{3,}/
thematicBreakRegexp(s) ==
  IF CountFrom(s, 1, {"-"}) >= ThematicBreakMin
  THEN [found |-> TRUE, len |-> CountFrom(s, 1, {"-"})]
  ELSE NoMatch

\* A mutant of paragraphRegexp: /^(.+?)(?:\n|$)/, with . for [\s\S].
paragraphRegexp_Dot(s) ==
  IF Len(s) >= 1 /\ IsDot(s[1])
  THEN [found |-> TRUE, len |-> IF LineEnd(s, 2) <= Len(s) THEN LineEnd(s, 2) ELSE Len(s)]
  ELSE NoMatch

\* /^([\s\S]+?)(?:\n|$)/ : one character or more, up to and with the first
\* line terminator after the first character, or up to the end of s.
paragraphRegexp(s) ==
  IF Len(s) >= 1
  THEN [found |-> TRUE, len |-> IF LineEnd(s, 2) <= Len(s) THEN LineEnd(s, 2) ELSE Len(s)]
  ELSE NoMatch

----------------------------------------------------------------------------
(* The block builders.  A builder returns [stat, block]: stat is "ok", or   *)
(* the error it raises.  A block has the fields of every block type; the   *)
(* fields its type does not have keep the values of EmptyBlock.            *)

EmptyBlock ==
  [type |-> "", level |-> 0, ordered |-> FALSE, body |-> <<>>, items |-> <<>>,
   url |-> <<>>, altText |-> <<>>, caption |-> <<>>, lang |-> <<>>]

Built(block) == [stat |-> "ok", block |-> block]

Raised(error) == [stat |-> error, block |-> EmptyBlock]

\* A block with a body of runs and links, or the error parseTextBody raised.
WithBody(type, level, tb) ==
  IF tb.stat # "done" THEN Raised(tb.stat)
  ELSE Built([EmptyBlock EXCEPT !.type = type, !.level = level, !.body = tb.body])

parseParagraphBlock(inp) == WithBody("paragraph", 0, parseTextBody(inp))

HeadingOf(m) ==
  IF ~m.found THEN Raised("Invalid heading block")
  ELSE WithBody("heading", m.level, parseTextBody(m.text))

parseHeadingBlock(inp) == HeadingOf(headingRegexp(inp))

\* .replace(/\n>[ ]?/g, '\n')
RECURSIVE StripInnerQuoteMarks(_)
StripInnerQuoteMarks(s) ==
  IF Len(s) = 0 THEN <<>>
  ELSE IF s[1] = "\n" /\ Len(s) >= 2 /\ s[2] = ">"
       THEN <<"\n">> \o StripInnerQuoteMarks(Slice(s, IF Len(s) >= 3 /\ s[3] = " " THEN 3 ELSE 2))
       ELSE <<s[1]>> \o StripInnerQuoteMarks(Tail(s))

\* .replace(/^>\s/, '')
StripFirstQuoteMark(s) ==
  IF Len(s) >= 2 /\ s[1] = ">" /\ IsWs(s[2]) THEN Slice(s, 2) ELSE s

QuoteOf(inp, m) ==
  IF ~m.found THEN Raised("Invalid quote block")
  ELSE WithBody("quote", 0,
                parseTextBody(StripFirstQuoteMark(StripInnerQuoteMarks(SubSeq(inp, 1, m.len)))))

parseQuoteBlock(inp) == QuoteOf(inp, quoteRegexp(inp))

\* input.split(/\n+/).filter((line) => line.trim() !== '')
RECURSIVE Lines(_)
Lines(s) ==
  IF Len(s) = 0 THEN <<>>
  ELSE (IF Trim(SubSeq(s, 1, LineEnd(s, 1) - 1)) # <<>>
        THEN <<SubSeq(s, 1, LineEnd(s, 1) - 1)>>
        ELSE <<>>) \o Lines(Slice(s, LineEnd(s, 1)))

\* /^\d{1,}\./.test(line)
HasNumericMarker(line) ==
  /\ CountFrom(line, 1, Digits) >= 1
  /\ CountFrom(line, 1, Digits) + 1 <= Len(line)
  /\ line[CountFrom(line, 1, Digits) + 1] = "."

ListItem(body) == [type |-> "listItem", body |-> body]

ItemWithBody(tb) ==
  IF tb.stat # "done" THEN [stat |-> tb.stat, item |-> ListItem(<<>>)]
  ELSE [stat |-> "ok", item |-> ListItem(tb.body)]

ItemOf(m) ==
  IF ~m.found THEN [stat |-> "Invalid list item", item |-> ListItem(<<>>)]
  ELSE ItemWithBody(parseTextBody(m.content))

parseListItem(line) == ItemOf(listRegexp(line))

\* The first line's item before the items of the other lines; the first
\* error raised ends the map.
ItemCons(it, restOf) ==
  IF it.stat # "ok" THEN [stat |-> it.stat, items |-> <<>>]
  ELSE IF restOf.stat # "ok" THEN restOf
  ELSE [stat |-> "ok", items |-> <<it.item>> \o restOf.items]

\* lines.map((line) => parseListItem(line))
RECURSIVE ListItems(_)
ListItems(lines) ==
  IF Len(lines) = 0 THEN [stat |-> "ok", items |-> <<>>]
  ELSE ItemCons(parseListItem(lines[1]), ListItems(Tail(lines)))

\* matches.every((match) => match && /^\d{1,}\./.test(match[0]))
Ordered(lines) ==
  \A i \in 1..Len(lines) : listRegexp(lines[i]).found /\ HasNumericMarker(lines[i])

ListOf(ordered, items) ==
  IF items.stat # "ok" THEN Raised(items.stat)
  ELSE Built([EmptyBlock EXCEPT !.type = "list", !.ordered = ordered, !.items = items.items])

ListOfLines(lines) == ListOf(Ordered(lines), ListItems(lines))

parseListBlock(inp) == ListOfLines(Lines(inp))

\* match[3].replace(/^\((.+)\)$/, '$1') || ''
Caption(c) ==
  IF Len(c) >= 3 /\ c[1] = "(" /\ c[Len(c)] = ")" /\ AllDot(c, 2, Len(c) - 1)
  THEN SubSeq(c, 2, Len(c) - 1)
  ELSE c

ImageOf(m) ==
  IF ~m.found THEN Raised("Invalid image block")
  ELSE Built([EmptyBlock EXCEPT !.type = "image", !.url = m.url,
                                !.altText = m.altText, !.caption = Caption(m.caption)])

parseImageBlock(inp) == ImageOf(imageRegexp(inp))

CodeOf(m) ==
  IF ~m.found THEN Raised("Invalid code block")
  ELSE Built([EmptyBlock EXCEPT !.type = "code", !.lang = m.lang, !.body = m.body])

parseCodeBlock(inp) == CodeOf(codeRegexp(inp))

parseThematicBreakBlock == Built([EmptyBlock EXCEPT !.type = "thematicBreak"])

----------------------------------------------------------------------------
(* The block matcher: regexpToParserPairs and parseBlocks. *)

\* The rules, in the order parseBlocks tries them.
regexpToParserPairs ==
  <<"heading", "quote", "list", "image", "code", "thematicBreak", "paragraph">>

RegexpOf(rule, s) ==
  CASE rule = "heading" -> headingRegexp(s)
    [] rule = "quote" -> quoteRegexp(s)
    [] rule = "list" -> listRegexp(s)
    [] rule = "image" -> imageRegexp(s)
    [] rule = "code" -> codeRegexp(s)
    [] rule = "thematicBreak" -> thematicBreakRegexp(s)
    [] rule = "paragraph" -> paragraphRegexp(s)

ParserOf(rule, inp) ==
  CASE rule = "heading" -> parseHeadingBlock(inp)
    [] rule = "quote" -> parseQuoteBlock(inp)
    [] rule = "list" -> parseListBlock(inp)
    [] rule = "image" -> parseImageBlock(inp)
    [] rule = "code" -> parseCodeBlock(inp)
    [] rule = "thematicBreak" -> parseThematicBreakBlock
    [] rule = "paragraph" -> parseParagraphBlock(inp)

\* A mutant of Remaining: the recursive call is given the caller's text
\* again.
Remaining_Whole(inp, len) == Trim(inp)

\* input.slice(match[0].length).trim()
Remaining(inp, len) == Trim(Slice(inp, len))

\* The loop over regexpToParserPairs: the index of the first pair whose
\* regexp.test(inp) is true, or 0.
FirstHit(inp) ==
  LET hits == {i \in 1..Len(regexpToParserPairs) : RegexpOf(regexpToParserPairs[i], inp).found}
  IN  IF hits = {} THEN 0 ELSE SetMin(hits)

\* A call that returns or throws: no block, no recursive call.
Ended(stat, inp) ==
  [stat |-> stat, rule |-> "", given |-> <<>>, block |-> EmptyBlock, rest |-> inp]

\* The array the call returns: the block built, then the blocks of the
\* text after the match; or the builder's error.
StepBuilt(inp, rule, len, given, built) ==
  IF built.stat # "ok" THEN Ended(built.stat, inp)
  ELSE [stat |-> "run", rule |-> rule, given |-> given, block |-> built.block,
        rest |-> Remaining(inp, len)]

\* parser(match[0].trim())
StepGiven(inp, rule, len, given) == StepBuilt(inp, rule, len, given, ParserOf(rule, given))

StepMatch(inp, rule, len) == StepGiven(inp, rule, len, Trim(SubSeq(inp, 1, len)))

StepHit(inp, hit) ==
  IF hit = 0 THEN Ended("No matching block found", inp)
  ELSE StepMatch(inp, regexpToParserPairs[hit], RegexpOf(regexpToParserPairs[hit], inp).len)

\* One call of parseBlocks on inp, up to its return, its throw or its
\* recursive call: the rule that matched, the text its builder was given,
\* the block built and the text of the recursive call.  The throw of
\* 'Invalid block' is not reached: exec matches where test did.
BlockStep(inp) ==
  IF Trim(inp) = <<>> THEN Ended("done", inp) ELSE StepHit(inp, FirstHit(inp))

\* parseBlocks(inp) as a function: [stat, blocks].
RECURSIVE BlockRun(_, _)
BlockReturn(n, sofar) ==
  IF n.stat # "run" THEN [stat |-> n.stat, blocks |-> sofar]
  ELSE BlockRun(n.rest, Append(sofar, n.block))

BlockRun(inp, sofar) == BlockReturn(BlockStep(inp), sofar)

parseBlocks(inp) == BlockRun(inp, <<>>)

----------------------------------------------------------------------------
(* The tokenizer as a state machine: one action per call. *)

TokAlphabet == {"a", "*", "_", BackTick}

IdleBlocks ==
  /\ input0 = <<>> /\ input = <<>> /\ blocks = <<>> /\ bstat = "idle"
  /\ matched = <<>> /\ calls = 0
IdleLink == ltext0 = <<>> /\ ltext = <<>> /\ parts = <<>> /\ lstat = "idle"
IdleTok ==
  /\ text0 = <<>> /\ text = <<>> /\ progress = NoProgress
  /\ result = <<>> /\ tstat = "idle" /\ opened = <<>>

InitTok ==
  /\ text0 \in Strings(TokAlphabet, MaxTokLen)
  /\ text = text0
  /\ progress = NoProgress
  /\ result = <<>>
  /\ tstat = "run"
  /\ opened = <<>>
  /\ IdleBlocks
  /\ IdleLink

\* The marker characters checkHeadStyle removes from the head of t.
HeadMarker(t) == SubSeq(t, 1, Len(t) - Len(checkHeadStyle(t).text))

TokenizeStep ==
  /\ tstat = "run"
  /\ LET n == TokStep([text |-> text, progress |-> progress, result |-> result, stat |-> "run"])
     IN  /\ text' = n.text
         /\ progress' = n.progress
         /\ result' = n.result
         /\ tstat' = n.stat
         /\ opened' = IF Len(text) > 0 /\ progress.style \in {"null", "plain"}
                      THEN HeadMarker(text)
                      ELSE opened
  /\ text0' = text0
  /\ UNCHANGED <<blockVars, linkVars>>

NextTok == TokenizeStep

SpecTok == InitTok /\ [][NextTok]_vars

----------------------------------------------------------------------------
(* Claims about the tokenizer, checked under SpecTok. *)

Styled == {"italic", "strong", "code"}

Last(s) == s[Len(s)]

\* C1: the tokenizer started with no current run and no finished runs
\* returns a run sequence without raising, for every text, also one that
\* ends inside an unterminated span; an unterminated span with no finished
\* run before it is returned as a styled run.
C1_NeverRaises ==
  /\ tstat # "TypeError"
  /\ (tstat = "done" /\ Len(text0) > 0 /\ checkHeadStyle(text0).style \in Styled
        => Len(result) > 0 /\ result[1].style = checkHeadStyle(text0).style)

\* C2 as stated: no two consecutive returned runs have the same style.
C2_NoAdjacentSameStyle ==
  tstat = "done" => \A i \in 1..(Len(result) - 1) : result[i].style # result[i + 1].style

\* C2 as amended: no two consecutive finished runs are both plain (plain
\* characters are gathered into one run); two styled runs of the same
\* style can be consecutive.
C2_NoAdjacentPlain ==
  \A i \in 1..(Len(result) - 1) :
    ~(result[i].style = "plain" /\ result[i + 1].style = "plain")

\* C2's case: a returned sequence with a plain run of several characters,
\* a styled run, and a plain run again.
C2_Witness ==
  /\ tstat = "done"
  /\ \E i \in 1..(Len(result) - 2) :
       /\ result[i].style = "plain" /\ Len(result[i].value) >= 2
       /\ result[i + 1].style \in Styled
       /\ result[i + 2].style = "plain"

\* The markers a run of a style may have been written with.
MarkersOf(style) ==
  CASE style = "plain" -> {<<>>}
    [] style = "strong" -> {<<"*", "*">>}
    [] style = "code" -> {<<BackTick>>}
    [] style = "italic" -> {<<"*">>, <<"_">>}

IsPrefix(p, s) == Len(p) <= Len(s) /\ SubSeq(s, 1, Len(p)) = p

\* The runs, each written as its value between its style's marker, give s.
RECURSIVE WritesBack(_, _)
WritesBack(runs, s) ==
  IF Len(runs) = 0 THEN s = <<>>
  ELSE \E m \in MarkersOf(runs[1].style) :
         LET w == m \o ToStr(runs[1].value) \o m
         IN  IsPrefix(w, s) /\ WritesBack(Tail(runs), Slice(s, Len(w)))

\* C3: round trip: the returned runs, each written as its value in its
\* style's marker and concatenated in order, give back the text.
C3_RoundTrip == tstat = "done" => WritesBack(result, text0)

\* C10: when the text is exhausted with a styled run open and the last
\* finished run plain, that plain run's value becomes its old value, then
\* the marker characters that opened the run in the text, then the text
\* gathered since; no other finished run changes.
C10_MergeKeepsOpeningMarker ==
  [][(/\ tstat = "run" /\ Len(text) = 0
      /\ progress.style \in Styled
      /\ Len(result) > 0 /\ Last(result).style = "plain")
     => result' = [result EXCEPT ![Len(result)].value =
                     @ \o opened \o TextOrEmpty(progress)]]_vars

\* The last call of the standalone tokenizer on t: the one whose text is
\* empty, with the run still open and the runs finished before it.
RECURSIVE StandaloneLastCall(_)
StandaloneLastCall(st) ==
  IF Len(st.text) = 0 THEN st ELSE StandaloneLastCall(StandaloneSwitch(st))

LastCallOn(t) ==
  StandaloneLastCall([text |-> t, progress |-> NoProgress, result |-> <<>>, stat |-> "run"])

\* The text ends inside an unterminated styled run whose preceding finished
\* run is plain.
EndsInStyledRunAfterPlain(t) ==
  /\ LastCallOn(t).progress.style \in Styled
  /\ Len(LastCallOn(t).result) > 0
  /\ Last(LastCallOn(t).result).style = "plain"

\* The text ends inside an unterminated styled run with no finished run
\* before it.
EndsInStyledRunAfterNothing(t) ==
  /\ LastCallOn(t).progress.style \in Styled
  /\ Len(LastCallOn(t).result) = 0

\* The embedded tokenizer returned the runs of the standalone one, the last
\* two of them merged into one plain run.
MergedWhereStandaloneEmits(embedded, alone) ==
  /\ Len(alone) = Len(embedded) + 1
  /\ SubSeq(embedded, 1, Len(embedded) - 1) = SubSeq(alone, 1, Len(embedded) - 1)
  /\ Last(embedded).style = "plain"
  /\ alone[Len(embedded)].style = "plain"
  /\ Last(alone).style \in Styled

\* C11: on the same link-free text the embedded tokenizer and the
\* standalone one return the same run sequence, except only when the text
\* ends inside an unterminated styled run whose preceding finished run is
\* plain: there the embedded one merges the run into the plain run and the
\* standalone one emits it as a styled run.
C11_SameRunsButMerge ==
  tstat \notin {"run", "idle"} =>
    /\ tstat = "done"
    /\ StandaloneParseTextBody(text0).stat = "done"
    /\ IF EndsInStyledRunAfterPlain(text0)
       THEN MergedWhereStandaloneEmits(result, StandaloneParseTextBody(text0).body)
       ELSE result = StandaloneParseTextBody(text0).body

\* What the two tokenizers do, against C11: the same, and where the text
\* ends inside an unterminated styled run with no finished run before it,
\* the embedded one raises a TypeError and the standalone one returns that
\* run.
C11_SameRunsButMergeAndTypeError ==
  tstat \notin {"run", "idle"} =>
    /\ StandaloneParseTextBody(text0).stat = "done"
    /\ IF EndsInStyledRunAfterNothing(text0)
       THEN /\ tstat = "TypeError"
            /\ Len(StandaloneParseTextBody(text0).body) = 1
            /\ StandaloneParseTextBody(text0).body[1].style \in Styled
       ELSE /\ tstat = "done"
            /\ IF EndsInStyledRunAfterPlain(text0)
               THEN MergedWhereStandaloneEmits(result, StandaloneParseTextBody(text0).body)
               ELSE result = StandaloneParseTextBody(text0).body

----------------------------------------------------------------------------
(* The link extractor as a state machine: one action per call. *)

LinkAlphabet == {"a", "[", "]", "(", ")"}

InitLink ==
  /\ ltext0 \in Strings(LinkAlphabet, MaxLinkLen)
  /\ ltext = ltext0
  /\ parts = <<>>
  /\ lstat = "run"
  /\ IdleTok
  /\ IdleBlocks

ParseLinkStep ==
  /\ lstat = "run"
  /\ LET n == LinkStep(ltext, parts, parts = <<>>)
     IN  /\ ltext' = n.text
         /\ parts' = n.parts
         /\ lstat' = n.stat
  /\ ltext0' = ltext0
  /\ UNCHANGED <<tokVars, blockVars>>

NextLink == ParseLinkStep

SpecLink == InitLink /\ [][NextLink]_vars

----------------------------------------------------------------------------
(* Claims about the link extractor, checked under SpecLink. *)

\* What C9 describes: the text before the first match, a Link whose label
\* is the shortest text between "[" and "](" and whose url is the shortest
\* text between "(" and ")", then the same for the text after the match.
RECURSIVE ClaimedParts(_)
ClaimedParts(s) ==
  LET m == linkRegexp(s)
  IN  IF ~m.found THEN FilterBoolean(s)
      ELSE FilterBoolean(SubSeq(s, 1, m.start - 1))
           \o <<LinkOf(parseTextBodyStyle(SubSeq(s, m.start + 1, m.start + m.label)).result,
                       SubSeq(s, m.start + m.label + 3, m.end - 1))>>
           \o ClaimedParts(Slice(s, m.end))

\* C9: a text with link syntax is split at the first match into the text
\* before, one Link and the result for the text after, empty strings
\* dropped; the Link's body is the tokenized shortest label and its url the
\* shortest text between the "(" after the label and the next ")".
C9_LinkSplit ==
  (lstat = "done" /\ linkRegexp(ltext0).found) => parts = ClaimedParts(ltext0)

----------------------------------------------------------------------------
(* The block matcher as a state machine: one action per call of           *)
(* parseBlocks.  The texts are every short text over BlockAlphabet and     *)
(* the documents of up to MaxLines lines of LinePool, separated by one     *)
(* line terminator or by MaxSep of them, and the lines of OtherLines.      *)

BlockAlphabet == {"a", " ", "\n", "#", ">", "-", "1", ".", "*"}

LinePool ==
  { <<"#", " ", "a">>,
    <<">", " ", "a">>,
    <<"-", " ", "a">>,
    <<"1", ".", " ", "a">>,
    <<"-", "-", "-">>,
    <<"a">> }

OtherLines ==
  { <<"!", "[", "a", "]", "(", "b", ")">>,
    <<"!", "[", "a", "]", "(", "b", ")", "(", "c", ")">>,
    <<BackTick, BackTick, BackTick, "a", "\n", "b", "\n", BackTick, BackTick, BackTick>>,
    <<BackTick, BackTick, BackTick, "\n", "b", "\n", BackTick, BackTick, BackTick, "\n", "a">>,
    <<"#", "#", " ", "a", "[", "b", "]", "(", "c", ")">>,
    <<"#", "#", "#", "#", "#", "#", "#", " ", "a">> }

Newlines(k) == [i \in 1..k |-> "\n"]

RECURSIVE Docs(_)
Docs(n) ==
  IF n <= 1 THEN LinePool
  ELSE Docs(n - 1) \cup
       {d \o Newlines(k) \o l : d \in Docs(n - 1), k \in {1, MaxSep}, l \in LinePool}

InitBlocks ==
  /\ input0 \in Strings(BlockAlphabet, MaxBlockLen) \cup Docs(MaxLines) \cup OtherLines
  /\ input = input0
  /\ blocks = <<>>
  /\ bstat = "run"
  /\ matched = <<>>
  /\ calls = 1
  /\ IdleTok
  /\ IdleLink

\* The state after a call whose outcome is n.
BlocksAfter(n) ==
  /\ bstat' = n.stat
  /\ input' = n.rest
  /\ blocks' = IF n.stat = "run" THEN Append(blocks, n.block) ELSE blocks
  /\ matched' = IF n.stat = "run"
                THEN Append(matched, [rule |-> n.rule, text |-> n.given])
                ELSE matched
  /\ calls' = IF n.stat = "run" THEN calls + 1 ELSE calls

ParseBlocksStep ==
  /\ bstat = "run"
  /\ BlocksAfter(BlockStep(input))
  /\ input0' = input0
  /\ UNCHANGED <<tokVars, linkVars>>

NextBlocks == ParseBlocksStep

SpecBlocks == InitBlocks /\ [][NextBlocks]_vars

----------------------------------------------------------------------------
(* Claims about the block matcher, checked under SpecBlocks. *)

\* The first rule, in the order heading, quote, list, image, code, thematic
\* break, paragraph, whose pattern matches at the start of s ("" for none).
FirstRuleInOrder(s) ==
  IF headingRegexp(s).found THEN "heading"
  ELSE IF quoteRegexp(s).found THEN "quote"
  ELSE IF listRegexp(s).found THEN "list"
  ELSE IF imageRegexp(s).found THEN "image"
  ELSE IF codeRegexp(s).found THEN "code"
  ELSE IF thematicBreakRegexp(s).found THEN "thematicBreak"
  ELSE IF paragraphRegexp(s).found THEN "paragraph"
  ELSE ""

\* The length of the match of the first rule in order on s.
FirstMatchLen(s) ==
  CASE FirstRuleInOrder(s) = "heading" -> headingRegexp(s).len
    [] FirstRuleInOrder(s) = "quote" -> quoteRegexp(s).len
    [] FirstRuleInOrder(s) = "list" -> listRegexp(s).len
    [] FirstRuleInOrder(s) = "image" -> imageRegexp(s).len
    [] FirstRuleInOrder(s) = "code" -> codeRegexp(s).len
    [] FirstRuleInOrder(s) = "thematicBreak" -> thematicBreakRegexp(s).len
    [] FirstRuleInOrder(s) = "paragraph" -> paragraphRegexp(s).len
    [] OTHER -> 0

Types(bs) == [i \in 1..Len(bs) |-> bs[i].type]

\* A heading line, a quote line and a plain line.
HeadingQuotePlain == <<"#", " ", "a", "\n", ">", " ", "a", "\n", "a">>

\* The text of HeadingQuotePlain gives Heading(level 1), Quote, Paragraph.
ExampleInOrder ==
  (bstat = "done" /\ input0 = HeadingQuotePlain)
    => Types(blocks) = <<"heading", "quote", "paragraph">> /\ blocks[1].level = 1

\* A call that builds a block from the text s appends to the blocks a block
\* of the first rule in order that matches s, and goes on with the
\* text after that match.
BuildsFirstRuleOf(s) ==
  /\ Len(blocks') = Len(blocks) + 1
  /\ SubSeq(blocks', 1, Len(blocks)) = blocks
  /\ Last(blocks').type = FirstRuleInOrder(s)
  /\ Trim(input') = Trim(Slice(s, FirstMatchLen(s)))

\* C4 as stated: the blocks come in source order; every block is built by
\* the first rule, in the fixed order, that matches at the start of the
\* left-trimmed remaining text, and parsing continues after that match; a
\* heading line, a quote line and a plain line give Heading(1), Quote,
\* Paragraph.
C4_FirstRuleOnLeftTrimmedText ==
  /\ []ExampleInOrder
  /\ [][(bstat = "run" /\ bstat' = "run") => BuildsFirstRuleOf(TrimStart(input))]_vars

\* What parseBlocks does, against C4: the rule is matched at the start of
\* the text the call was given: the trimmed rest of the caller's text for a
\* recursive call, the text as it is, leading whitespace included, for the
\* first call.
C4_FirstRuleOnCallText ==
  /\ []ExampleInOrder
  /\ [][(bstat = "run" /\ bstat' = "run")
          => BuildsFirstRuleOf(input) /\ input' = Trim(input')]_vars

\* The three blocks of HeadingQuotePlain are built.
C4_Witness == bstat = "done" /\ input0 = HeadingQuotePlain /\ Len(blocks) = 3

\* s with every run of k or more line terminators made a run of k.
RECURSIVE CollapseNewlines(_, _, _)
CollapseNewlines(s, k, seen) ==
  IF Len(s) = 0 THEN <<>>
  ELSE IF s[1] = "\n"
       THEN (IF seen < k THEN <<"\n">> ELSE <<>>) \o CollapseNewlines(Tail(s), k, seen + 1)
       ELSE <<s[1]>> \o CollapseNewlines(Tail(s), k, 0)

\* C5 as stated: a whitespace-only text gives no block, no block is built
\* from whitespace, and the blocks of a text are those of the same text
\* with every run of line terminators made a single one.
C5_BlankLinesAsSingleNewline ==
  /\ Trim(input0) = <<>> => bstat \in {"run", "done"} /\ blocks = <<>>
  /\ \A i \in 1..Len(matched) : matched[i].text # <<>>
  /\ bstat = "done" =>
       LET single == parseBlocks(CollapseNewlines(input0, 1, 0))
       IN  single.stat = "done" /\ single.blocks = blocks

\* What parseBlocks does, against C5: a whitespace-only text gives no
\* block; every block but the first is built from a text that is not
\* blank, and so is the first when the text has no leading whitespace; and
\* the blocks of a text are those of the same text with every run of three
\* or more line terminators made a run of two.
C5_BlankLinesAddNoBlock ==
  /\ Trim(input0) = <<>> => bstat \in {"run", "done"} /\ blocks = <<>>
  /\ \A i \in 2..Len(matched) : matched[i].text # <<>>
  /\ input0 = TrimStart(input0) => \A i \in 1..Len(matched) : matched[i].text # <<>>
  /\ bstat = "done" =>
       LET double == parseBlocks(CollapseNewlines(input0, 2, 0))
       IN  double.stat = "done" /\ double.blocks = blocks

\* Two blocks with a run of MaxSep line terminators between
\* their lines, and nothing else, are returned.
C5_Witness ==
  /\ bstat = "done"
  /\ input0 = <<"#", " ", "a">> \o Newlines(MaxSep) \o <<">", " ", "a">>
  /\ Types(blocks) = <<"heading", "quote">>

\* C6: the no-matching-rule error is never raised: a text that is not
\* empty after trimming is matched by a rule, at the latest by the
\* paragraph rule.
C6_SomeRuleMatches ==
  /\ bstat # "No matching block found"
  /\ (bstat = "run" /\ Trim(input) # <<>>) => FirstRuleInOrder(input) # ""

\* C6's case: a text that only the paragraph rule matches was made a block.
C6_Witness ==
  /\ bstat = "done"
  /\ \E i \in 1..Len(matched) : matched[i].rule = "paragraph" /\ blocks[i].type = "paragraph"

InvalidErrors ==
  {"Invalid heading block", "Invalid quote block", "Invalid list item",
   "Invalid image block", "Invalid code block"}

\* C7: when a rule's pattern matches, its builder returns a block and
\* raises no Invalid ... error.
C7_BuildersNeverRaise == bstat \notin InvalidErrors

\* C8: for a text the list rule matches, the List block has one item per
\* matched line, in order, and ordered is true exactly when every matched
\* line starts with a numeric marker.
C8_ListItemsAndOrdered ==
  [][(bstat = "run" /\ Trim(input) # <<>> /\ FirstRuleInOrder(input) = "list")
     => /\ bstat' = "run"
        /\ LET b == Last(blocks')
               ls == Lines(Trim(SubSeq(input, 1, listRegexp(input).len)))
           IN  /\ b.type = "list"
               /\ Len(b.items) = Len(ls)
               /\ \A i \in 1..Len(ls) :
                    b.items[i].body = parseTextBody(ListIter(ls[i], 1).content).body
               /\ b.ordered = \A i \in 1..Len(ls) : HasNumericMarker(ls[i])]_vars

----------------------------------------------------------------------------
(* Termination: a run of the tokenizer or a run of parseBlocks, each call  *)
(* of which goes on to its return, its throw or its recursive call.        *)

\* No call has been made.
InitRuns == IdleTok /\ IdleBlocks /\ IdleLink

\* parseTextBodyStyle({ text, progress: null, result: [] }) is called.
CallTokenizer ==
  /\ tstat = "idle" /\ bstat = "idle"
  /\ text0' \in Strings(TokAlphabet, MaxTokLen)
  /\ text' = text0'
  /\ tstat' = "run"
  /\ UNCHANGED <<progress, result, opened, blockVars, linkVars>>

\* parseBlocks(input) is called.
CallParseBlocks ==
  /\ tstat = "idle" /\ bstat = "idle"
  /\ input0' \in Strings(BlockAlphabet, MaxBlockLen) \cup Docs(MaxLines) \cup OtherLines
  /\ input' = input0'
  /\ bstat' = "run"
  /\ calls' = 1
  /\ UNCHANGED <<blocks, matched, tokVars, linkVars>>

NextRuns == CallTokenizer \/ CallParseBlocks \/ TokenizeStep \/ ParseBlocksStep

\* Weak fairness of ParseBlocksStep, WF_vars(ParseBlocksStep), written out
\* with the action's guard as its enabling condition: a call of parseBlocks
\* that is running always has a next step, and that step changes bstat or
\* calls.
FairParseBlocks == []<>(bstat # "run") \/ []<><<ParseBlocksStep>>_vars

\* A call that was made goes on to its return, its throw or its recursive
\* call.
SpecRuns == InitRuns /\ [][NextRuns]_vars /\ WF_vars(TokenizeStep) /\ FairParseBlocks

\* A recursive call of parseBlocks is given a text strictly shorter than
\* its caller's.
RecursiveCallShortens ==
  [][(bstat = "run" /\ bstat' = "run") => Len(input') < Len(input)]_vars

\* A call of the tokenizer on a text that is not empty makes its recursive
\* call on a strictly shorter text; a call on the empty text returns.
TokenizerCallShortens ==
  [][(tstat = "run")
       => IF Len(text) > 0 THEN tstat' = "run" /\ Len(text') < Len(text)
          ELSE tstat' # "run"]_vars

\* The nested calls of parseBlocks are at most the blocks built plus one,
\* and at most the characters of the text plus one.
CallsBounded == calls <= Len(blocks) + 1 /\ calls <= Len(input0) + 1

\* C12: parseBlocks terminates on every input: each recursive call gets a
\* remaining text strictly shorter than its caller's, so the nested calls
\* are at most the blocks returned plus one; and every tokenizer step
\* strictly shortens its remaining text until it is empty.
C12_Terminates ==
  /\ RecursiveCallShortens
  /\ TokenizerCallShortens
  /\ []CallsBounded
  /\ (bstat = "run") ~> (bstat # "run")
  /\ (tstat = "run") ~> (tstat # "run")

\* C12's case: parseBlocks returned the three blocks of a text of three
\* lines after four nested calls.
C12_Witness ==
  /\ bstat = "done"
  /\ input0 \in Docs(MaxLines)
  /\ Len(blocks) = MaxLines
  /\ calls = MaxLines + 1

====
